---- MODULE Spec2Model ----
(***************************************************************************)
(* bashtyped: the comment-annotation type checker of src/src/lib.rs.       *)
(*                                                                         *)
(* The state is a FileInfo during parse_code: the syntax tree of the       *)
(* source, the tree cursor, the binding map `variables`, the diagnostics   *)
(* list `errors` and the `force` flag.  One action is one iteration of     *)
(* the loop of parse_code: handle_node on the node under the cursor (with  *)
(* every recursive call and every cursor move it makes), the report of a   *)
(* ParseError, and the advance of the cursor.                              *)
(*                                                                         *)
(* A second specification, TypeSpec, is one call of matches, can_contain,  *)
(* type_from_string or set_variable on arguments held in `input`, with the *)
(* value it returns in `output`; Spec leaves both at None.                 *)
(*                                                                         *)
(* Text is a sequence of one-character strings, so that strip_prefix,      *)
(* strip_suffix, trim, split and split_once are computed and not assumed.  *)
(***************************************************************************)
EXTENDS Integers, Sequences, FiniteSets

VARIABLES tree, cursor, variables, errors, force, status, log, input, output

vars == <<tree, cursor, variables, errors, force, status, log, input, output>>

(***************************************************************************)
(* Bounds of the model.                                                    *)
(***************************************************************************)
\* the largest number of statements and comments at the top level of a script
MaxStmts == 3
\* the largest number of scalars in a type and of names in a type text
MaxLeaves == 3

(***************************************************************************)
(* Option<T>: None is the empty sequence, Some(x) is <<x>>.                *)
(***************************************************************************)
None == <<>>
Some(x) == <<x>>
IsSome(o) == o # <<>>
Unwrap(o) == o[1]
\* Option::or
OptionOr(a, b) == IF IsSome(a) THEN a ELSE b

(***************************************************************************)
(* str operations of the Rust standard library, on sequences of characters *)
(***************************************************************************)
IsWhitespace(c) == c \in {" ", "\t", "\n"}

RECURSIVE trim_start(_)
trim_start(s) ==
    IF s # <<>> /\ IsWhitespace(Head(s)) THEN trim_start(Tail(s)) ELSE s

RECURSIVE trim_end(_)
trim_end(s) ==
    IF s # <<>> /\ IsWhitespace(s[Len(s)])
    THEN trim_end(SubSeq(s, 1, Len(s) - 1))
    ELSE s

trim(s) == trim_end(trim_start(s))

strip_prefix(s, p) ==
    IF Len(s) >= Len(p) /\ SubSeq(s, 1, Len(p)) = p
    THEN Some(SubSeq(s, Len(p) + 1, Len(s)))
    ELSE None

strip_suffix(s, p) ==
    IF Len(s) >= Len(p) /\ SubSeq(s, Len(s) - Len(p) + 1, Len(s)) = p
    THEN Some(SubSeq(s, 1, Len(s) - Len(p)))
    ELSE None

\* the index of the first occurrence of the character c in s, or 0
RECURSIVE find_char(_, _, _)
find_char(s, c, i) ==
    IF i > Len(s) THEN 0
    ELSE IF s[i] = c THEN i
    ELSE find_char(s, c, i + 1)

\* str::split_once: Some(<<before, after>>) at the first c, None without one
split_once(s, c) ==
    LET i == find_char(s, c, 1)
    IN  IF i = 0 THEN None
        ELSE Some(<<SubSeq(s, 1, i - 1), SubSeq(s, i + 1, Len(s))>>)

\* str::split(c).collect(): every part between the occurrences of c
RECURSIVE split(_, _)
split(s, c) ==
    LET i == find_char(s, c, 1)
    IN  IF i = 0 THEN <<s>>
        ELSE <<SubSeq(s, 1, i - 1)>> \o split(SubSeq(s, i + 1, Len(s)), c)

(***************************************************************************)
(* BashType.  A scalar is a one-element tuple, Or(t1, t2) is               *)
(* <<"Or", t1, t2>>; equality of tuples is the derived PartialEq.          *)
(***************************************************************************)
String == <<"String">>
Integer == <<"Integer">>
Bool == <<"Bool">>
Any == <<"Any">>
Or(t1, t2) == <<"Or", t1, t2>>
IsOr(t) == t[1] = "Or"

\* matches with Any read on the left side only
RECURSIVE matches_left_any(_, _)
matches_left_any(self, other) ==
    IF IsOr(self)
    THEN matches_left_any(self[2], other) \/ matches_left_any(self[3], other)
    ELSE IF IsOr(other)
    THEN matches_left_any(other[2], self) \/ matches_left_any(other[3], self)
    ELSE self = Any \/ self = other

RECURSIVE matches(_, _)
matches(self, other) ==
    IF IsOr(self) THEN matches(self[2], other) \/ matches(self[3], other)
    ELSE IF IsOr(other) THEN matches(other[2], self) \/ matches(other[3], self)
    ELSE self = Any \/ other = Any \/ self = other

RECURSIVE types_from_or(_)
types_from_or(self) ==
    IF IsOr(self) THEN types_from_or(self[2]) \o types_from_or(self[3])
    ELSE <<self>>

\* Vec::contains
Contains(v, x) == \E i \in 1..Len(v) : v[i] = x

\* can_contain whose scalar branch lets Any contain scalars only
can_contain_any_scalars(self, other) ==
    IF IsOr(self)
    THEN IF IsOr(other)
         THEN \A i \in 1..Len(types_from_or(other)) :
                 Contains(types_from_or(self), types_from_or(other)[i])
         ELSE matches(self[2], other) \/ matches(self[3], other)
    ELSE (self = Any /\ ~IsOr(other)) \/ self = other

\* can_contain comparing two unions by structural equality
can_contain_structural(self, other) ==
    IF IsOr(self)
    THEN IF IsOr(other) THEN self = other
         ELSE matches(self[2], other) \/ matches(self[3], other)
    ELSE self = Any \/ self = other

\* can_contain answered by matches
can_contain_by_matches(self, other) == matches(self, other)

can_contain(self, other) ==
    IF IsOr(self)
    THEN IF IsOr(other)
         THEN LET self_types == types_from_or(self)
                  other_types == types_from_or(other)
              IN  \A i \in 1..Len(other_types) : Contains(self_types, other_types[i])
         ELSE matches(self[2], other) \/ matches(self[3], other)
    ELSE self = Any \/ self = other

\* str::rsplit_once: the text before and after the last c
RECURSIVE rfind_char(_, _, _)
rfind_char(s, c, i) ==
    IF i = 0 THEN 0 ELSE IF s[i] = c THEN i ELSE rfind_char(s, c, i - 1)

rsplit_once(s, c) ==
    IF rfind_char(s, c, Len(s)) = 0 THEN None
    ELSE Some(<<SubSeq(s, 1, rfind_char(s, c, Len(s)) - 1),
                SubSeq(s, rfind_char(s, c, Len(s)) + 1, Len(s))>>)

\* type_from_string splitting at the last `|`
RECURSIVE type_from_string_rsplit(_)
type_from_string_rsplit(input_type) ==
    IF trim(input_type) = <<"s", "t", "r", "i", "n", "g">>
    THEN [ok |-> TRUE, ty |-> String]
    ELSE IF trim(input_type) = <<"i", "n", "t">> THEN [ok |-> TRUE, ty |-> Integer]
    ELSE IF trim(input_type) = <<"b", "o", "o", "l">> THEN [ok |-> TRUE, ty |-> Bool]
    ELSE IF trim(input_type) = <<"a", "n", "y">> THEN [ok |-> TRUE, ty |-> Any]
    ELSE IF ~IsSome(rsplit_once(trim(input_type), "|"))
    THEN [ok |-> FALSE, ty |-> Any]
    ELSE [ok |-> /\ type_from_string_rsplit(
                        Unwrap(rsplit_once(trim(input_type), "|"))[1]).ok
                 /\ type_from_string_rsplit(
                        Unwrap(rsplit_once(trim(input_type), "|"))[2]).ok,
          ty |-> Or(type_from_string_rsplit(
                        Unwrap(rsplit_once(trim(input_type), "|"))[1]).ty,
                    type_from_string_rsplit(
                        Unwrap(rsplit_once(trim(input_type), "|"))[2]).ty)]

(***************************************************************************)
(* type_from_string.  The result is [ok, ty]; ok = FALSE is the todo!() of *)
(* a text that is no scalar name and holds no '|': the thread panics.      *)
(***************************************************************************)
RECURSIVE type_from_string(_)
type_from_string(input_type) ==
    LET v == trim(input_type)
    IN  IF v = <<"s", "t", "r", "i", "n", "g">> THEN [ok |-> TRUE, ty |-> String]
        ELSE IF v = <<"i", "n", "t">> THEN [ok |-> TRUE, ty |-> Integer]
        ELSE IF v = <<"b", "o", "o", "l">> THEN [ok |-> TRUE, ty |-> Bool]
        ELSE IF v = <<"a", "n", "y">> THEN [ok |-> TRUE, ty |-> Any]
        ELSE LET parts == split_once(v, "|")
             IN  IF ~IsSome(parts) THEN [ok |-> FALSE, ty |-> Any]
                 ELSE LET first == type_from_string(Unwrap(parts)[1])
                          second == type_from_string(Unwrap(parts)[2])
                      IN  [ok |-> first.ok /\ second.ok,
                           ty |-> Or(first.ty, second.ty)]

(***************************************************************************)
(* The syntax tree handed over by the tree-sitter bash grammar.  A node is *)
(* [kind, text, start, end, kids]: kind() of the node, the source text of  *)
(* a leaf, start_byte() and end_byte(), and the children in order.  A      *)
(* shape is a node before its bytes are laid out: [kind, text, kids].      *)
(***************************************************************************)
Tok(kind, text) == [kind |-> kind, text |-> text, kids |-> <<>>]
Inner(kind, kids) == [kind |-> kind, text |-> <<>>, kids |-> kids]

\* the kinds of the anonymous nodes of the grammar; every other kind is named
AnonymousKinds == {"=", "\"", "$", "$(", ")", "{", "}"}
IsNamed(n) == n.kind \notin AnonymousKinds

\* the children of these kinds follow each other without a byte between them;
\* the children of every other kind are one byte (a blank, a newline) apart
Tight == {"variable_assignment", "string", "simple_expansion",
          "command_substitution", "command_name"}
Gap(kind) == IF kind \in Tight THEN 0 ELSE 1

RECURSIVE Layout(_, _)
RECURSIVE LayoutKids(_, _, _)
Layout(shape, off) ==
    IF shape.kids = <<>>
    THEN [kind |-> shape.kind, text |-> shape.text, start |-> off,
          end |-> off + Len(shape.text), kids |-> <<>>]
    ELSE LET ks == LayoutKids(shape.kids, off, Gap(shape.kind))
         IN  [kind |-> shape.kind, text |-> <<>>, start |-> off,
              end |-> ks[Len(ks)].end, kids |-> ks]
LayoutKids(shapes, off, gap) ==
    IF shapes = <<>> THEN <<>>
    ELSE LET first == Layout(Head(shapes), off)
         IN  <<first>> \o LayoutKids(Tail(shapes), first.end + gap, gap)

\* Node of a TreeCursor whose path from the root is p (child indices from 1)
RECURSIVE NodeAt(_, _)
NodeAt(t, p) == IF p = <<>> THEN t ELSE NodeAt(t.kids[Head(p)], Tail(p))

Parent(p) == SubSeq(p, 1, Len(p) - 1)
Index(p) == p[Len(p)]
Sibling(p, i) == Parent(p) \o <<i>>

\* TreeCursor::goto_first_child, goto_next_sibling, goto_parent: whether the
\* move is possible, and the path after it
HasFirstChild(t, p) == NodeAt(t, p).kids # <<>>
FirstChild(p) == p \o <<1>>
HasNextSibling(t, p) == p # <<>> /\ Index(p) < Len(NodeAt(t, Parent(p)).kids)
NextSibling(p) == Sibling(p, Index(p) + 1)
HasParent(p) == p # <<>>

\* Node::named_child_count
named_child_count(n) == Cardinality({i \in 1..Len(n.kids) : IsNamed(n.kids[i])})

Range(s, e) == [start |-> s, end |-> e]
NodeRange(n) == Range(n.start, n.end)

Min(x, y) == IF x <= y THEN x ELSE y
Max(x, y) == IF x >= y THEN x ELSE y

\* combine_ranges taking the start of its first range for the smaller start
combine_ranges_first_start(r1, r2) ==
    Range(r1.start, Max(r2.end, r1.end))

combine_ranges(r1, r2) ==
    Range(Min(r1.start, r2.start), Max(r2.end, r1.end))

(***************************************************************************)
(* TypeDeclaration, Comment and the reports of the diagnostics list.       *)
(***************************************************************************)
TypeDeclaration(range, bash_type, method) ==
    [range |-> range, bash_type |-> bash_type, method |-> method]

Label(range, message) == [range |-> range, message |-> message]

\* a report: its message kind, the offset it is built at, its labels and
\* what the message names (a variable name, an error type)
Report(kind, at, labels, info) ==
    [kind |-> kind, at |-> at, labels |-> labels, info |-> info]

label_from_type_declaration(decl_type, is_later) ==
    Label(decl_type.range,
          <<"Type", is_later,
            IF decl_type.method = "Inferred" THEN "inferred" ELSE "declared",
            decl_type.bash_type>>)

MissingArgument(expected, received) == <<"MissingArgument", expected, received>>
UnknownVariable(var_name) == <<"UnknownVariable", var_name>>
ParseError(err_type, start, end) ==
    [err_type |-> err_type, start |-> start, end |-> end]
NoError == ParseError(<<>>, 0, 0)

\* the report parse_code pushes for an Err of handle_node
ParseErrorReport(e, at) ==
    Report("Error while parsing comment", at,
           <<Label(Range(e.start, e.end), e.err_type)>>, <<>>)

(***************************************************************************)
(* handle_comment: the Comment of a `#/` or `#[` comment token, None for   *)
(* any other comment.  (utf8_text cannot fail on a node of a &str source,  *)
(* so InvalidUnicode is never raised.)                                     *)
(***************************************************************************)
handle_comment(node) ==
    LET comment == node.text
        comment_info == OptionOr(strip_prefix(comment, <<"#", "/">>),
                                 strip_prefix(comment, <<"#", "[">>))
    IN  IF IsSome(comment_info)
        THEN Some([text |-> trim(Unwrap(comment_info)), range |-> NodeRange(node)])
        ELSE None

(***************************************************************************)
(* infer_type.  The result is [res, ty, err]: res = "ok" with the type,    *)
(* "err" with the ParseError, or "panic" (todo!() on a node kind without   *)
(* a rule, expect() on a missing child).                                   *)
(***************************************************************************)
InferOk(ty) == [res |-> "ok", ty |-> ty, err |-> NoError]
InferErr(e) == [res |-> "err", ty |-> Any, err |-> e]
InferPanic == [res |-> "panic", ty |-> Any, err |-> NoError]

\* infer_type with every quoted string a String
infer_type_quoted_is_string(node, vs) ==
    CASE node.kind = "number" -> InferOk(Integer)
      [] node.kind = "word" -> InferOk(String)
      [] node.kind = "string" -> InferOk(String)
      [] node.kind = "simple_expansion" ->
            IF Len(node.kids) < 2 THEN InferPanic
            ELSE IF node.kids[2].text \in DOMAIN vs
            THEN InferOk(vs[node.kids[2].text].bash_type)
            ELSE InferErr(ParseError(UnknownVariable(node.kids[2].text),
                                     node.kids[2].start, node.kids[2].end))
      [] OTHER -> InferPanic

\* infer_type looking up the last expansion of every quoted string
RECURSIVE infer_type_every_expansion(_, _)
infer_type_every_expansion(node, vs) ==
    CASE node.kind = "number" -> InferOk(Integer)
      [] node.kind = "word" -> InferOk(String)
      [] node.kind = "string" ->
            IF \E k \in 1..Len(node.kids) : node.kids[k].kind = "simple_expansion"
            THEN infer_type_every_expansion(
                    node.kids[CHOOSE k \in 1..Len(node.kids) :
                                node.kids[k].kind = "simple_expansion"], vs)
            ELSE InferOk(String)
      [] node.kind = "simple_expansion" ->
            IF Len(node.kids) < 2 THEN InferPanic
            ELSE IF node.kids[2].text \in DOMAIN vs
            THEN InferOk(vs[node.kids[2].text].bash_type)
            ELSE InferErr(ParseError(UnknownVariable(node.kids[2].text),
                                     node.kids[2].start, node.kids[2].end))
      [] OTHER -> InferPanic

\* infer_type with an unbound name a String
RECURSIVE infer_type_unbound_is_string(_, _)
infer_type_unbound_is_string(node, vs) ==
    CASE node.kind = "number" -> InferOk(Integer)
      [] node.kind = "word" -> InferOk(String)
      [] node.kind = "string" ->
            IF named_child_count(node) = 1
            THEN IF Len(node.kids) < 2 THEN InferPanic
                 ELSE IF node.kids[2].kind = "string_content" THEN InferOk(String)
                 ELSE infer_type_unbound_is_string(node.kids[2], vs)
            ELSE InferOk(String)
      [] node.kind = "simple_expansion" ->
            IF Len(node.kids) < 2 THEN InferPanic
            ELSE IF node.kids[2].text \in DOMAIN vs
            THEN InferOk(vs[node.kids[2].text].bash_type)
            ELSE InferOk(String)
      [] OTHER -> InferPanic

RECURSIVE infer_type(_, _)
infer_type(node, vs) ==
    CASE node.kind = "number" -> InferOk(Integer)
      [] node.kind = "word" -> InferOk(String)
      [] node.kind = "string" ->
            IF named_child_count(node) = 1
            THEN IF Len(node.kids) < 2 THEN InferPanic
                 ELSE LET content == node.kids[2]
                      IN  IF content.kind = "string_content" THEN InferOk(String)
                          ELSE infer_type(content, vs)
            ELSE InferOk(String)
      [] node.kind = "simple_expansion" ->
            IF Len(node.kids) < 2 THEN InferPanic
            ELSE LET variable == node.kids[2]
                     var_name == variable.text
                 IN  IF var_name \in DOMAIN vs
                     THEN InferOk(vs[var_name].bash_type)
                     ELSE InferErr(ParseError(UnknownVariable(var_name),
                                              variable.start, variable.end))
      [] OTHER -> InferPanic

(***************************************************************************)
(* The FileInfo under a handler: m = [cursor, variables, errors, force,    *)
(* log].  log is the history of the assignments handle_node has handled.   *)
(***************************************************************************)
Insert(vs, name, decl) ==
    [n \in DOMAIN vs \cup {name} |-> IF n = name THEN decl ELSE vs[n]]

\* the conflict test with the two types the other way round
Conflicts_reversed(final_type, previous_type, f) ==
    ~can_contain(previous_type.bash_type, final_type.bash_type) /\ ~f

\* the conflict test of set_variable on an existing entry
Conflicts(final_type, previous_type, f) ==
    ~can_contain(final_type.bash_type, previous_type.bash_type) /\ ~f

\* set_variable storing an accepted redeclaration over the existing entry
set_variable_overwriting(m, name, final_type) ==
    IF name \in DOMAIN m.variables
          /\ Conflicts(final_type, m.variables[name], m.force)
    THEN [m EXCEPT !.errors = Append(@,
            Report("Variable defined with different type",
                   NodeAt(tree, m.cursor).start,
                   <<label_from_type_declaration(m.variables[name], FALSE),
                     label_from_type_declaration(final_type, TRUE)>>,
                   name))]
    ELSE [m EXCEPT !.variables = Insert(@, name, final_type)]

set_variable(m, name, final_type) ==
    IF name \in DOMAIN m.variables
    THEN LET previous_type == m.variables[name]
         IN  IF Conflicts(final_type, previous_type, m.force)
             THEN [m EXCEPT !.errors = Append(@,
                     Report("Variable defined with different type",
                            NodeAt(tree, m.cursor).start,
                            <<label_from_type_declaration(previous_type, FALSE),
                              label_from_type_declaration(final_type, TRUE)>>,
                            name))]
             ELSE m
    ELSE [m EXCEPT !.variables = Insert(@, name, final_type)]

(***************************************************************************)
(* handle_node.  The result is [m, res, err]: the FileInfo and cursor      *)
(* after the call, and res = "ok" (Ok(())), "err" (Err(err)) or "panic".   *)
(***************************************************************************)
Ok(m) == [m |-> m, res |-> "ok", err |-> NoError]
Err(m, e) == [m |-> m, res |-> "err", err |-> e]
Panic(m) == [m |-> m, res |-> "panic", err |-> NoError]

\* TreeCursor::goto_next_sibling with its result ignored
GoNext(p) == IF HasNextSibling(tree, p) THEN NextSibling(p) ELSE p

\* one entry of log: the assignment at `path`, of the variable `name`, was
\* handled with this force flag and pending comment; `previous` is the entry
\* the binding map held for the name, `inline` the Comment of a trailing
\* comment, `typed` the text given to type_from_string, `inferred` the type
\* infer_type returned (None where the handler did not get that far),
\* `outcome` the way the handler ended, `reported` the reports it pushed and
\* `added` the names it added to the binding map, `kept` whether it left
\* the binding map as it was
LogEntry(before, after, name, possible_comment, r) ==
    [path |-> before.cursor, name |-> name, force |-> before.force,
     pending |-> possible_comment,
     previous |-> IF name \in DOMAIN before.variables
                  THEN Some(before.variables[name]) ELSE None,
     inline |-> r.inline, typed |-> r.typed, inferred |-> r.inferred,
     outcome |-> r.outcome,
     reported |-> SubSeq(after.errors, Len(before.errors) + 1, Len(after.errors)),
     added |-> DOMAIN after.variables \ DOMAIN before.variables,
     kept |-> after.variables = before.variables]

\* how far the assignment branch got: the state it leaves, its result, and
\* what it read on the way
Handled(m, res, err, inline, typed, inferred, outcome) ==
    [m |-> m, res |-> res, err |-> err, inline |-> inline, typed |-> typed,
     inferred |-> inferred, outcome |-> outcome]

\* the annotation chosen with the pending comment before the trailing one
ChosenPendingFirst(inline_type, possible_comment) ==
    OptionOr(possible_comment, inline_type)

\* the annotation an assignment is checked against
ChosenComment(inline_type, possible_comment) ==
    OptionOr(inline_type, possible_comment)

\* the acceptance test without the force flag
AcceptsWithoutForce(suggested_type, inferred_type, f) ==
    can_contain(suggested_type, inferred_type)

\* the acceptance test of an annotation
Accepts(suggested_type, inferred_type, f) ==
    can_contain(suggested_type, inferred_type) \/ f

\* the declaration of an annotated assignment carrying the inferred type
DeclaredWithInferredType(comment, inferred_location, suggested_type, inferred_type) ==
    TypeDeclaration(combine_ranges(comment.range, inferred_location),
                    inferred_type, "Declared")

\* the declaration of an assignment with an accepted annotation
DeclaredDeclaration(comment, inferred_location, suggested_type, inferred_type) ==
    TypeDeclaration(combine_ranges(comment.range, inferred_location),
                    suggested_type, "Declared")

\* the declaration of an assignment without an annotation
InferredDeclaration(inferred_location, inferred_type) ==
    TypeDeclaration(inferred_location, inferred_type, "Inferred")

\* the span of the value node alone
ValueLocation(c3) ==
    Range(NodeAt(tree, c3).start, NodeAt(tree, c3).end)

\* the span from the name of an assignment to the end of its value, read
\* from the value node at path c3
InferredLocation(c3) ==
    Range(NodeAt(tree, Sibling(c3, Index(c3) - 2)).start, NodeAt(tree, c3).end)

\* the end of the branch with the annotation `comment`, whose text
\* type_from_string turned into `suggested`; m5 is the FileInfo with the
\* cursor where the lookup of the trailing comment left it
AnnotatedAssignment(m5, name, inferred_type, inferred_location, inline_type, comment, suggested) ==
    IF ~suggested.ok
    THEN Handled(m5, "panic", NoError, inline_type, Some(comment.text),
                 Some(inferred_type), "panic")
    ELSE IF Accepts(suggested.ty, inferred_type, m5.force)
    THEN Handled(
            set_variable(m5, name,
                DeclaredDeclaration(comment, inferred_location,
                                    suggested.ty, inferred_type)),
            "ok", NoError, inline_type, Some(comment.text),
            Some(inferred_type), "set")
    ELSE Handled(
            [m5 EXCEPT !.errors = Append(@,
                Report("Types do not match",
                       NodeAt(tree, m5.cursor).start,
                       <<Label(comment.range,
                               <<"Type specified as", suggested.ty>>),
                         Label(inferred_location,
                               <<"Type inferred to be", inferred_type>>)>>,
                       <<>>))],
            "ok", NoError, inline_type, Some(comment.text),
            Some(inferred_type), "mismatch")

\* the end of the branch once the annotation is chosen
FinalType(m5, name, inferred_type, inferred_location, inline_type, chosen) ==
    IF IsSome(chosen)
    THEN AnnotatedAssignment(m5, name, inferred_type, inferred_location,
                             inline_type, Unwrap(chosen),
                             type_from_string(Unwrap(chosen).text))
    ELSE Handled(
            set_variable(m5, name,
                InferredDeclaration(inferred_location, inferred_type)),
            "ok", NoError, inline_type, None, Some(inferred_type), "set")

\* the lookup of the trailing comment: c5 is the cursor after it
InlineType(m, possible_comment, name, inferred_type, inferred_location, has_inline, c5) ==
    FinalType([m EXCEPT !.cursor = c5], name, inferred_type, inferred_location,
              IF has_inline THEN handle_comment(NodeAt(tree, c5)) ELSE None,
              ChosenComment(IF has_inline THEN handle_comment(NodeAt(tree, c5))
                            ELSE None,
                            possible_comment))

\* the branch from the result of infer_type on; c3 is the cursor on the value
InferredAssignment(m, possible_comment, name, c3, inferred) ==
    IF inferred.res = "panic"
    THEN Handled([m EXCEPT !.cursor = c3], "panic", NoError, None, None, None,
                 "panic")
    ELSE IF inferred.res = "err"
    THEN Handled([m EXCEPT !.cursor = c3], "err", inferred.err, None, None,
                 None, "error")
    ELSE IF Index(c3) < 3
    THEN Handled([m EXCEPT !.cursor = c3], "panic", NoError, None, None,
                 Some(inferred.ty), "panic")
    ELSE
    LET c4 == IF HasParent(c3) THEN Parent(c3) ELSE c3
        has_inline == /\ HasNextSibling(tree, c4)
                      /\ NodeAt(tree, NextSibling(c4)).kind = "comment"
    IN  InlineType(m, possible_comment, name, inferred.ty, InferredLocation(c3),
                   has_inline, IF has_inline THEN NextSibling(c4) ELSE c4)

\* the `variable_assignment` branch; m.cursor is on the assignment, c1 on
\* its name
AssignmentBranch(m, possible_comment, c1) ==
    InferredAssignment(m, possible_comment, NodeAt(tree, c1).text,
                       GoNext(GoNext(c1)),
                       infer_type(NodeAt(tree, GoNext(GoNext(c1))), m.variables))

\* the branch with its entry of log
LoggedAssignment(m, possible_comment, name, r) ==
    [m |-> [r.m EXCEPT !.log =
                Append(@, LogEntry(m, r.m, name, possible_comment, r))],
     res |-> r.res, err |-> r.err]

FirstChildOrSelf(p) == IF HasFirstChild(tree, p) THEN FirstChild(p) ELSE p

HandleAssignment(m, possible_comment) ==
    LoggedAssignment(m, possible_comment,
                     NodeAt(tree, FirstChildOrSelf(m.cursor)).text,
                     AssignmentBranch(m, possible_comment,
                                      FirstChildOrSelf(m.cursor)))

\* set_var with its two arguments; `here` is the node under the cursor
SetVar(m, args, here, bash_type) ==
    IF ~bash_type.ok THEN Panic(m)
    ELSE Ok(set_variable(m, args[1],
                TypeDeclaration(NodeRange(here), bash_type.ty, "Declared")))

\* the arguments of set_var, a wrong number of them passed over in silence
SetVarArgs_lenient(m, args, here) ==
    IF Len(args) # 2 THEN Ok(m)
    ELSE SetVar(m, args, here, type_from_string(args[2]))

\* the arguments of set_var
SetVarArgs(m, args, here) ==
    IF Len(args) # 2
    THEN Err(m, ParseError(MissingArgument(2, Len(args)), here.start, here.end))
    ELSE SetVar(m, args, here, type_from_string(args[2]))

\* the text between `set_var(` and `)`, None for any other command
SetVarInfo(command) ==
    LET conts == strip_prefix(command, <<"s", "e", "t", "_", "v", "a", "r", "(">>)
    IN  IF IsSome(conts) THEN strip_suffix(Unwrap(conts), <<")">>) ELSE None

FuncCommand(m, info) ==
    IF ~IsSome(info) THEN Ok(m)
    ELSE SetVarArgs(m, split(Unwrap(info), ","), NodeAt(tree, m.cursor))

\* the command of a directive: the text of the comment before its `]`
DirectiveCommand(m, command) ==
    IF ~IsSome(command) THEN Ok(m)
    ELSE IF Unwrap(command) = <<"f", "o", "r", "c", "e">>
    THEN Ok([m EXCEPT !.force = TRUE])
    ELSE FuncCommand(m, SetVarInfo(Unwrap(command)))

\* the directive of a comment, run after the cursor has moved to the next
\* sibling (m.cursor is that sibling, or still the comment without one)
HandleDirective(m, possible_comment) ==
    DirectiveCommand(m, IF IsSome(possible_comment)
                        THEN strip_suffix(Unwrap(possible_comment).text, <<"]">>)
                        ELSE None)

RECURSIVE handle_node(_, _)
\* the end of the `comment` branch: d is the result of the directive
AfterDirective(d, available_sibling, possible_comment) ==
    IF d.res # "ok" THEN d
    ELSE IF ~available_sibling THEN Ok(d.m)
    ELSE handle_node(d.m, possible_comment)

\* the `comment` branch
CommentBranch(m, possible_comment) ==
    AfterDirective(HandleDirective([m EXCEPT !.cursor = GoNext(@)],
                                   possible_comment),
                   HasNextSibling(tree, m.cursor), possible_comment)

\* handle_node keeping the pending comment across a comment without one
handle_node_keeping(m, possible_comment) ==
    CASE NodeAt(tree, m.cursor).kind = "comment" ->
            CommentBranch(m, OptionOr(handle_comment(NodeAt(tree, m.cursor)),
                                      possible_comment))
      [] NodeAt(tree, m.cursor).kind = "variable_assignment" ->
            HandleAssignment(m, possible_comment)
      [] OTHER -> Ok(m)

\* handle_node with a default branch that fails on the node
handle_node_strict(m, possible_comment) ==
    CASE NodeAt(tree, m.cursor).kind = "comment" ->
            CommentBranch(m, handle_comment(NodeAt(tree, m.cursor)))
      [] NodeAt(tree, m.cursor).kind = "variable_assignment" ->
            HandleAssignment(m, possible_comment)
      [] OTHER -> Err(m, ParseError(UnknownVariable(NodeAt(tree, m.cursor).text),
                                    NodeAt(tree, m.cursor).start,
                                    NodeAt(tree, m.cursor).end))

handle_node(m, possible_comment) ==
    CASE NodeAt(tree, m.cursor).kind = "comment" ->
            CommentBranch(m, handle_comment(NodeAt(tree, m.cursor)))
      [] NodeAt(tree, m.cursor).kind = "variable_assignment" ->
            HandleAssignment(m, possible_comment)
      [] OTHER -> Ok(m)

(***************************************************************************)
(* parse_code: one iteration of its loop.                                  *)
(***************************************************************************)
\* the walk up of the inner while loop: the next sibling of the nearest
\* node, from p upwards, that has one; None when the root is reached
RECURSIVE Climb(_)
Climb(p) ==
    IF HasNextSibling(tree, p) THEN Some(NextSibling(p))
    ELSE IF HasParent(p) THEN Climb(Parent(p))
    ELSE None

\* force left as it is when the walk moves on to a next sibling
ForceKept(f) == f

\* the value of force after the walk has moved on to a next sibling
ForceAfterSibling(f) == FALSE

Machine == [cursor |-> cursor, variables |-> variables, errors |-> errors,
            force |-> force, log |-> log]

\* the loop of parse_code after handle_node returned r
AfterHandleNode(r, up) ==
    /\ variables' = r.m.variables
    /\ log' = r.m.log
    /\ errors' = IF r.res = "err"
                 THEN Append(r.m.errors,
                             ParseErrorReport(r.err, NodeAt(tree, r.m.cursor).start))
                 ELSE r.m.errors
    /\ IF r.res = "panic"
       THEN /\ status' = "panicked"
            /\ cursor' = r.m.cursor
            /\ force' = r.m.force
       ELSE IF HasFirstChild(tree, r.m.cursor)
       THEN /\ status' = "running"
            /\ cursor' = FirstChild(r.m.cursor)
            /\ force' = r.m.force
       ELSE IF IsSome(up)
       THEN /\ status' = "running"
            /\ cursor' = Unwrap(up)
            /\ force' = ForceAfterSibling(r.m.force)
       ELSE /\ status' = "done"
            /\ cursor' = <<>>
            /\ force' = r.m.force

HandleNodeStep(r) == AfterHandleNode(r, Climb(r.m.cursor))

ParseCodeStep ==
    /\ status = "running"
    /\ HandleNodeStep(handle_node(Machine, None))
    /\ UNCHANGED <<tree, input, output>>

(***************************************************************************)
(* The scripts of the model: the syntax trees of up to MaxStmts top-level  *)
(* nodes drawn from Stmts.                                                 *)
(***************************************************************************)
Annotation(type_expr) == Tok("comment", <<"#", "/", " ">> \o type_expr)
Directive(command) == Tok("comment", <<"#", "[">> \o command \o <<"]">>)

T_int == <<"i", "n", "t">>
T_string == <<"s", "t", "r", "i", "n", "g">>
T_int_or_string == T_int \o <<" ", "|", " ">> \o T_string
T_num == <<"n", "u", "m">>
T_any == <<"a", "n", "y">>
D_force == <<"f", "o", "r", "c", "e">>
D_set_var(args) == <<"s", "e", "t", "_", "v", "a", "r", "(">> \o args \o <<")">>

name_a == <<"a">>
name_b == <<"b">>

PlainComment == Tok("comment", <<"#", " ", "c">>)
Comments ==
    { PlainComment,
      Annotation(T_int), Annotation(T_string), Annotation(T_int_or_string),
      Annotation(T_num),
      Directive(D_force),
      Directive(D_set_var(name_a \o <<",", " ">> \o T_string)),
      Directive(D_set_var(name_a \o <<",", " ">> \o T_any)),
      Directive(D_set_var(name_a)) }

Quote == Tok("\"", <<"\"">>)
Number(text) == Tok("number", text)
Word(text) == Tok("word", text)
VariableName(name) == Tok("variable_name", name)
StringContent(text) == Tok("string_content", text)
SimpleExpansion(name) ==
    Inner("simple_expansion", <<Tok("$", <<"$">>), VariableName(name)>>)
StringOf(parts) == Inner("string", <<Quote>> \o parts \o <<Quote>>)
Command(text) == Inner("command", <<Inner("command_name", <<Word(text)>>)>>)
CommandSubstitution(text) ==
    Inner("command_substitution",
          <<Tok("$(", <<"$", "(">>), Command(text), Tok(")", <<")">>)>>)
Assignment(name, value) ==
    Inner("variable_assignment", <<VariableName(name), Tok("=", <<"=">>), value>>)

Assignments ==
    { Assignment(name_a, Number(<<"1">>)),
      Assignment(name_a, StringOf(<<StringContent(<<"v">>)>>)),
      Assignment(name_a, StringOf(<<>>)),
      Assignment(name_b, SimpleExpansion(name_a)),
      Assignment(name_b, StringOf(<<SimpleExpansion(name_a)>>)),
      Assignment(name_a, StringOf(<<StringContent(<<"i", " ">>),
                                    SimpleExpansion(name_b)>>)),
      Assignment(name_a, CommandSubstitution(<<"c">>)) }

\* a command with a variable assignment before its name: a=1 c
PrefixedCommand(assignment, text) ==
    Inner("command", <<assignment, Inner("command_name", <<Word(text)>>)>>)

\* { body }
CompoundStatement(body) ==
    Inner("compound_statement", <<Tok("{", <<"{">>)>> \o body \o <<Tok("}", <<"}">>)>>)

Others ==
    { Command(<<"c">>),
      PrefixedCommand(Assignment(name_a, Number(<<"1">>)), <<"c">>),
      CompoundStatement(<<Assignment(name_b, Number(<<"1">>))>>) }

Stmts == Comments \cup Assignments \cup Others

Programs == UNION {[1..n -> Stmts] : n \in 0..MaxStmts}

Program(stmts) == Layout(Inner("program", stmts), 0)

TypeOK ==
    /\ status \in {"running", "done", "panicked"}
    /\ force \in BOOLEAN
    /\ \A n \in DOMAIN variables : variables[n].method \in {"Inferred", "Declared"}

Init ==
    /\ tree \in {Program(stmts) : stmts \in Programs}
    /\ cursor = <<>>
    /\ variables = <<>>
    /\ errors = <<>>
    /\ force = FALSE
    /\ status = "running"
    /\ log = <<>>
    /\ input = None
    /\ output = None

\* the loop of parse_code on a comment, on an assignment, on any other node
VisitComment ==
    /\ NodeAt(tree, cursor).kind = "comment"
    /\ ParseCodeStep

VisitAssignment ==
    /\ NodeAt(tree, cursor).kind = "variable_assignment"
    /\ ParseCodeStep

VisitOther ==
    /\ NodeAt(tree, cursor).kind \notin {"comment", "variable_assignment"}
    /\ ParseCodeStep

Next == VisitComment \/ VisitAssignment \/ VisitOther

Spec == Init /\ [][Next]_vars

(***************************************************************************)
(* The type relations, type_from_string and set_variable on their own:     *)
(* one call of matches, of can_contain, of type_from_string or of          *)
(* set_variable, on types of up to MaxLeaves scalars and on the type texts *)
(* of up to MaxLeaves names.                                               *)
(***************************************************************************)
Scalars == {String, Integer, Bool, Any}

\* the types with exactly n scalar leaves, in every nesting
RECURSIVE TypesOf(_)
TypesOf(n) ==
    IF n = 1 THEN Scalars
    ELSE UNION {{Or(t1, t2) : t1 \in TypesOf(k), t2 \in TypesOf(n - k)} :
                    k \in 1..(n - 1)}

Types == UNION {TypesOf(n) : n \in 1..MaxLeaves}

\* the name of a scalar type in an annotation
TypeName(t) ==
    CASE t = String -> T_string
      [] t = Integer -> T_int
      [] t = Bool -> <<"b", "o", "o", "l">>
      [] t = Any -> T_any

\* the names of a list of scalars, written with sep between them
RECURSIVE JoinTypes(_, _)
JoinTypes(names, sep) ==
    IF Len(names) = 1 THEN TypeName(names[1])
    ELSE TypeName(names[1]) \o sep \o JoinTypes(Tail(names), sep)

NameLists == UNION {[1..n -> Scalars] : n \in 1..MaxLeaves}
Separators == {<<"|">>, <<" ", "|", " ">>}
Paddings == {<<>>, <<" ">>}

\* two types: the receiver and the argument of matches and of can_contain
TypePair(t1, t2) ==
    [kind |-> "types", self |-> t1, other |-> t2, names |-> <<>>,
     text |-> <<>>, bound |-> FALSE, force |-> FALSE]

\* a type text and the scalars it lists
TypeText(l, sep, pad) ==
    [kind |-> "text", self |-> Any, other |-> Any, names |-> l,
     text |-> pad \o JoinTypes(l, sep) \o pad, bound |-> FALSE,
     force |-> FALSE]

\* a declaration of the type t1 for the name a, on a binding map that is
\* empty or holds an entry of the type t2 for a, with the force flag
Declaration(t1, t2, b, f) ==
    [kind |-> "declaration", self |-> t1, other |-> t2, names |-> <<>>,
     text |-> <<>>, bound |-> b, force |-> f]

\* the types set_variable is called on
DeclaredTypes == UNION {TypesOf(n) : n \in 1..(MaxLeaves - 1)}

\* the entry the binding map holds, and the declaration given to set_variable
StoredDeclaration == TypeDeclaration(Range(0, 3), input.other, "Inferred")
NewDeclaration == TypeDeclaration(Range(4, 14), input.self, "Declared")

\* the FileInfo set_variable is called on
Receiver ==
    [cursor |-> <<>>,
     variables |-> IF input.bound THEN Insert(<<>>, name_a, StoredDeclaration)
                   ELSE <<>>,
     errors |-> <<>>, force |-> input.force, log |-> <<>>]

TypeInit ==
    /\ \/ \E t1 \in Types, t2 \in Types : input = TypePair(t1, t2)
       \/ \E l \in NameLists, sep \in Separators, pad \in Paddings :
             input = TypeText(l, sep, pad)
       \/ \E t1 \in DeclaredTypes, t2 \in DeclaredTypes, b \in BOOLEAN,
             f \in BOOLEAN :
             input = Declaration(t1, t2, b, f)
    /\ output = None
    /\ tree = Program(<<>>)
    /\ cursor = <<>>
    /\ variables = <<>>
    /\ errors = <<>>
    /\ force = FALSE
    /\ status = "done"
    /\ log = <<>>

Returned(op, result) ==
    /\ output = None
    /\ output' = Some([op |-> op, result |-> result])
    /\ UNCHANGED <<tree, cursor, variables, errors, force, status, log, input>>

CallMatches ==
    /\ input.kind = "types"
    /\ Returned("matches", matches(input.self, input.other))

CallCanContain ==
    /\ input.kind = "types"
    /\ Returned("can_contain", can_contain(input.self, input.other))

CallTypeFromString ==
    /\ input.kind = "text"
    /\ Returned("type_from_string", type_from_string(input.text))

CallSetVariable ==
    /\ input.kind = "declaration"
    /\ Returned("set_variable", set_variable(Receiver, name_a, NewDeclaration))

TypeNext ==
    CallMatches \/ CallCanContain \/ CallTypeFromString \/ CallSetVariable

TypeSpec == TypeInit /\ [][TypeNext]_vars

\* the call the state holds the result of
Called(op) == IsSome(output) /\ Unwrap(output).op = op
Result == Unwrap(output).result

\* the scalar members of a type, flattened
RECURSIVE Leaves(_)
Leaves(t) == IF IsOr(t) THEN Leaves(t[2]) \cup Leaves(t[3]) ELSE {t}

\* the union of a list of scalars nested to the right
RECURSIVE RightNested(_)
RightNested(names) ==
    IF Len(names) = 1 THEN names[1]
    ELSE Or(names[1], RightNested(Tail(names)))

(***************************************************************************)
(* What the claims speak of, read from the syntax tree.                    *)
(***************************************************************************)
\* a `#[force]` directive comment
IsForceDirective(n) ==
    /\ n.kind = "comment"
    /\ IsSome(strip_prefix(n.text, <<"#", "[">>))
    /\ strip_suffix(trim(Unwrap(strip_prefix(n.text, <<"#", "[">>))), <<"]">>)
         = Some(<<"f", "o", "r", "c", "e">>)

\* a `#/` annotation comment, and the type expression it holds
IsAnnotation(n) == n.kind = "comment" /\ IsSome(strip_prefix(n.text, <<"#", "/">>))
AnnotationText(n) == trim(Unwrap(strip_prefix(n.text, <<"#", "/">>)))

\* a comment that is a `#/` annotation or a `#[` directive
IsDirective(n) == n.kind = "comment" /\ IsSome(strip_prefix(n.text, <<"#", "[">>))

HasPrevSibling(p) == p # <<>> /\ Index(p) > 1
PrevNode(p) == NodeAt(tree, Sibling(p, Index(p) - 1))
NextNode(p) == NodeAt(tree, NextSibling(p))

\* the assignment at p has a comment as its next sibling
HasTrailingComment(p) == HasNextSibling(tree, p) /\ NextNode(p).kind = "comment"

\* the type an entry of log was checked against, when its text resolved
Resolves(e) == IsSome(e.typed) /\ type_from_string(Unwrap(e.typed)).ok
SuggestedType(e) == type_from_string(Unwrap(e.typed)).ty
InferredType(e) == Unwrap(e.inferred)

MismatchReported(e) ==
    \E k \in 1..Len(e.reported) : e.reported[k].kind = "Types do not match"
ConflictReported(e) ==
    \E k \in 1..Len(e.reported) :
        e.reported[k].kind = "Variable defined with different type"

Entries == {log[i] : i \in 1..Len(log)}

(***************************************************************************)
(* C1.  parse_code always runs to its return: whatever the syntax tree,    *)
(* the scan never panics.                                                  *)
(* Stated as written; the code panics (todo!() in type_from_string and in  *)
(* infer_type).                                                            *)
(***************************************************************************)
C1_ScanNeverPanics == status # "panicked"

(***************************************************************************)
(* C2.  An assignment right after a `#[force]` directive that redeclares a *)
(* bound name with a type that cannot contain the stored type, or whose    *)
(* trailing annotation cannot contain its inferred type, is handled to the *)
(* end and pushes no report.                                               *)
(* Stated as written; the code gives the text `force]` to                  *)
(* type_from_string when the assignment has no trailing comment.           *)
(***************************************************************************)
\* the type the assignment of entry e declares: that of its trailing `#/`
\* annotation when it has one, its inferred type otherwise
C2_NewType(e) ==
    IF HasTrailingComment(e.path) /\ IsAnnotation(NextNode(e.path))
    THEN type_from_string(AnnotationText(NextNode(e.path)))
    ELSE [ok |-> TRUE, ty |-> InferredType(e)]

C2_Incompatible(e) ==
    /\ IsSome(e.inferred)
    /\ C2_NewType(e).ok
    /\ \/ /\ IsSome(e.previous)
          /\ ~can_contain(C2_NewType(e).ty, Unwrap(e.previous).bash_type)
       \/ ~can_contain(C2_NewType(e).ty, InferredType(e))

C2_ForcedStatementCompletes ==
    \A e \in Entries :
        (/\ HasPrevSibling(e.path)
         /\ IsForceDirective(PrevNode(e.path))
         /\ C2_Incompatible(e))
        => (e.outcome # "panic" /\ e.reported = <<>>)

(***************************************************************************)
(* C3.  The force flag does not leak past the statement after a `#[force]` *)
(* directive.                                                              *)
(***************************************************************************)
\* the siblings i, i-1, ... of the children of par are comments up to a
\* `#[force]` directive among them
RECURSIVE ForceInChain(_, _)
ForceInChain(par, i) ==
    /\ i >= 1
    /\ NodeAt(tree, par \o <<i>>).kind = "comment"
    /\ \/ IsForceDirective(NodeAt(tree, par \o <<i>>))
       \/ ForceInChain(par, i - 1)

\* the node at p is the statement a `#[force]` directive reaches through
\* the chain of sibling comments after it
ReachedFromForce(p) == p # <<>> /\ ForceInChain(Parent(p), Index(p) - 1)

RECURSIVE OnlyCommentsBefore(_, _)
OnlyCommentsBefore(par, i) ==
    \/ i = 0
    \/ /\ NodeAt(tree, par \o <<i>>).kind = "comment"
       /\ OnlyCommentsBefore(par, i - 1)

\* the node at p is that statement, or stands at the start of it: it is the
\* first child (comments before it aside) of a node that does
RECURSIVE StartsForcedStatement(_)
StartsForcedStatement(p) ==
    /\ p # <<>>
    /\ \/ ReachedFromForce(p)
       \/ /\ OnlyCommentsBefore(Parent(p), Index(p) - 1)
          /\ StartsForcedStatement(Parent(p))

\* C3 as written: every assignment that is not the statement reached from a
\* `#[force]` directive is handled with force false.  The code handles the
\* assignment of `a=1 c` after `#[force]` with force set.
C3_ForceOnlyOnReachedStatement ==
    \A e \in Entries : e.force => ReachedFromForce(e.path)

\* C3 as amended: an assignment is handled with force set only if it is the
\* statement reached from a `#[force]` directive or stands at the start of
\* that statement; every other assignment is handled with force false and
\* gets the report of an annotation or a redeclaration that cannot contain.
C3_ForceStaysInStatement ==
    \A e \in Entries :
        /\ e.force => StartsForcedStatement(e.path)
        /\ (~StartsForcedStatement(e.path) /\ Resolves(e) /\ IsSome(e.inferred)
              /\ ~can_contain(SuggestedType(e), InferredType(e)))
           => MismatchReported(e)
        /\ (~StartsForcedStatement(e.path) /\ e.outcome = "set"
              /\ IsSome(e.previous)
              /\ ~can_contain(IF IsSome(e.typed) THEN SuggestedType(e)
                              ELSE InferredType(e),
                              Unwrap(e.previous).bash_type))
           => ConflictReported(e)

\* a later assignment of a run that did set force is handled with force
\* false and gets its conflict report
C3_Witness ==
    \E i, j \in 1..Len(log) :
        /\ i < j
        /\ log[i].force
        /\ ~log[j].force
        /\ ~StartsForcedStatement(log[j].path)
        /\ ConflictReported(log[j])

(***************************************************************************)
(* C4.  A `#/ T` comment followed at once by an assignment that has no     *)
(* trailing comment annotates that assignment: the assignment is checked   *)
(* against T and, if accepted and new, bound Declared with type T.         *)
(* Stated as written, for the assignments whose value has an inferred      *)
(* type; the code gives the comment to an assignment before it.            *)
(***************************************************************************)
C4_LeadingAnnotationApplies ==
    \A e \in Entries :
        (/\ HasPrevSibling(e.path)
         /\ IsAnnotation(PrevNode(e.path))
         /\ ~HasTrailingComment(e.path)
         /\ IsSome(e.inferred))
        => LET T == type_from_string(AnnotationText(PrevNode(e.path)))
           IN  /\ e.typed = Some(AnnotationText(PrevNode(e.path)))
               /\ (T.ok /\ e.previous = None
                     /\ (can_contain(T.ty, InferredType(e)) \/ e.force))
                  => /\ e.name \in DOMAIN variables
                     /\ variables[e.name].bash_type = T.ty
                     /\ variables[e.name].method = "Declared"

(***************************************************************************)
(* C5.  An assignment handled with a pending `#/` annotation and with a    *)
(* trailing `#/` annotation is checked against the trailing one and bound  *)
(* with its type; the pending annotation is not used.                      *)
(***************************************************************************)
C5_Case(e) ==
    /\ HasPrevSibling(e.path)
    /\ IsAnnotation(PrevNode(e.path))
    /\ e.pending = handle_comment(PrevNode(e.path))
    /\ HasTrailingComment(e.path)
    /\ IsAnnotation(NextNode(e.path))
    /\ IsSome(e.inferred)

C5_TrailingAnnotationWins ==
    \A e \in Entries :
        C5_Case(e)
        => LET S == type_from_string(AnnotationText(NextNode(e.path)))
           IN  /\ e.typed = Some(AnnotationText(NextNode(e.path)))
               /\ S.ok =>
                    /\ MismatchReported(e)
                         <=> (~can_contain(S.ty, InferredType(e)) /\ ~e.force)
                    /\ (e.outcome = "set" /\ e.previous = None)
                         => /\ e.name \in DOMAIN variables
                            /\ variables[e.name].bash_type = S.ty

\* the two annotations differ, the pending one would have been refused, and
\* the name is bound with the type of the trailing one
C5_Witness ==
    \E e \in Entries :
        /\ C5_Case(e)
        /\ e.previous = None
        /\ e.outcome = "set"
        /\ type_from_string(Unwrap(e.pending).text).ok
        /\ ~can_contain(type_from_string(Unwrap(e.pending).text).ty,
                        InferredType(e))
        /\ e.name \in DOMAIN variables
        /\ variables[e.name].bash_type
             = type_from_string(AnnotationText(NextNode(e.path))).ty

(***************************************************************************)
(* C6.  An assignment checked against an annotation of type S with the     *)
(* inferred type T gets a type-mismatch report iff S.can_contain(T) is     *)
(* false and force is not set; it is then the only report the handler      *)
(* pushes and the handler adds no binding.                                 *)
(***************************************************************************)
C6_MismatchIffNotContained ==
    \A e \in Entries :
        (Resolves(e) /\ IsSome(e.inferred))
        => /\ MismatchReported(e)
                <=> (~can_contain(SuggestedType(e), InferredType(e)) /\ ~e.force)
           /\ MismatchReported(e)
                => /\ Len(e.reported) = 1
                   /\ e.added = {}
                   /\ e.kept

\* an annotation that cannot contain the inferred type was refused with one
\* report, and the name is left unbound
C6_Witness ==
    \E e \in Entries :
        /\ Resolves(e)
        /\ IsSome(e.inferred)
        /\ ~can_contain(SuggestedType(e), InferredType(e))
        /\ ~e.force
        /\ MismatchReported(e)
        /\ Len(e.reported) = 1
        /\ e.kept
        /\ e.name \notin DOMAIN variables

(***************************************************************************)
(* C7.  An annotated assignment of a name that is not bound yet, whose     *)
(* annotation is accepted, binds the name with the type of the annotation  *)
(* and the method Declared.                                                *)
(***************************************************************************)
C7_DeclaredWithAnnotationType ==
    \A e \in Entries :
        (/\ Resolves(e)
         /\ IsSome(e.inferred)
         /\ e.previous = None
         /\ (can_contain(SuggestedType(e), InferredType(e)) \/ e.force))
        => /\ e.added = {e.name}
           /\ e.name \in DOMAIN variables
           /\ variables[e.name].bash_type = SuggestedType(e)
           /\ variables[e.name].method = "Declared"

\* inferred Integer, annotated `int | string`: bound Or(Integer, String)
C7_Witness ==
    \E e \in Entries :
        /\ Resolves(e)
        /\ e.previous = None
        /\ e.inferred = Some(Integer)
        /\ SuggestedType(e) = Or(Integer, String)
        /\ e.name \in DOMAIN variables
        /\ variables[e.name].bash_type = Or(Integer, String)
        /\ variables[e.name].method = "Declared"

(***************************************************************************)
(* C8.  An assignment of a name that is not bound yet, handled without a   *)
(* pending comment and without a trailing Comment, adds exactly one        *)
(* binding: the inferred type, the method Inferred, the range of the       *)
(* assignment node (start of the name to end of the value); it pushes no   *)
(* report.                                                                 *)
(***************************************************************************)
C8_Case(e) ==
    /\ e.pending = None
    /\ ~(HasTrailingComment(e.path)
           /\ (IsAnnotation(NextNode(e.path)) \/ IsDirective(NextNode(e.path))))
    /\ IsSome(e.inferred)
    /\ e.previous = None

C9_Comment(e) == IF IsSome(e.inline) THEN Unwrap(e.inline) ELSE Unwrap(e.pending)

C9_Case(e) ==
    /\ Resolves(e)
    /\ IsSome(e.inferred)
    /\ e.outcome = "set"
    /\ e.previous = None

C9_RangeCoversCommentAndAssignment ==
    \A e \in Entries :
        C9_Case(e)
        => LET r == variables[e.name].range
               c == C9_Comment(e).range
               a == NodeRange(NodeAt(tree, e.path))
           IN  /\ r.start = Min(c.start, a.start)
               /\ r.end = Max(c.end, a.end)
               /\ r.start <= c.start /\ r.start <= a.start
               /\ r.end >= c.end /\ r.end >= a.end

\* a leading annotation: the range starts at the comment and ends with the
\* assignment
C9_Witness ==
    \E e \in Entries :
        /\ C9_Case(e)
        /\ e.inline = None
        /\ variables[e.name].range.start = Unwrap(e.pending).range.start
        /\ variables[e.name].range.start < NodeAt(tree, e.path).start
        /\ variables[e.name].range.end = NodeAt(tree, e.path).end

(***************************************************************************)
(* C10.  First binding wins: an entry of the binding map is never changed  *)
(* and never removed, and a later declaration of the name is checked       *)
(* against it.                                                             *)
(***************************************************************************)
\* the type a handled assignment declares
C10_NewType(e) == IF IsSome(e.typed) THEN SuggestedType(e) ELSE InferredType(e)

\* a declaration of a bound name was checked against the entry the binding
\* map holds now, which is the first one
C10_CheckedAgainstFirst ==
    \A e \in Entries :
        (IsSome(e.previous) /\ e.outcome = "set")
        => /\ e.name \in DOMAIN variables
           /\ e.previous = Some(variables[e.name])
           /\ ConflictReported(e)
                <=> (~can_contain(C10_NewType(e), variables[e.name].bash_type)
                       /\ ~e.force)
           /\ ConflictReported(e)
                => e.reported[1].labels[1].range = variables[e.name].range

C10_FirstBindingWins ==
    /\ []C10_CheckedAgainstFirst
    /\ [][\A n \in DOMAIN variables :
             n \in DOMAIN variables' /\ variables'[n] = variables[n]]_vars

\* a name was declared again with a wider type, without a report, and the
\* binding map still holds the first declaration
C10_Witness ==
    \E e \in Entries :
        /\ IsSome(e.previous)
        /\ e.outcome = "set"
        /\ e.reported = <<>>
        /\ Resolves(e)
        /\ SuggestedType(e) # Unwrap(e.previous).bash_type
        /\ variables[e.name] = Unwrap(e.previous)

(***************************************************************************)
(* C11.  set_variable on a name that has an entry appends a conflict       *)
(* report if and only if force is not set and the type of the new          *)
(* declaration cannot contain the type of the entry, and then appends      *)
(* exactly one; on a name without an entry it inserts the new declaration  *)
(* and appends nothing.                                                    *)
(***************************************************************************)
C11_SetVariableReports ==
    Called("set_variable")
    => IF input.bound
       THEN IF ~input.force /\ ~can_contain(input.self, input.other)
            THEN /\ Len(Result.errors) = 1
                 /\ Result.errors[1].kind = "Variable defined with different type"
                 /\ Result.errors[1].labels[1].range = StoredDeclaration.range
                 /\ Result.errors[1].labels[2].range = NewDeclaration.range
            ELSE Result.errors = <<>>
       ELSE /\ Result.errors = <<>>
            /\ DOMAIN Result.variables = {name_a}
            /\ Result.variables[name_a] = NewDeclaration

\* a declaration of a scalar for a name that holds a union, without force:
\* one conflict report
C11_Witness ==
    /\ Called("set_variable")
    /\ input.bound
    /\ ~input.force
    /\ IsOr(input.other)
    /\ ~IsOr(input.self)
    /\ Len(Result.errors) = 1

(***************************************************************************)
(* C12.  Any is the top element: matches(Any, t) and matches(t, Any) are   *)
(* true for every scalar t, and can_contain(Any, t) is true for every      *)
(* type t, scalar or union of any nesting.                                 *)
(***************************************************************************)
C12_AnyIsTop ==
    /\ (/\ Called("matches")
        /\ ~IsOr(input.self) /\ ~IsOr(input.other)
        /\ input.self = Any \/ input.other = Any)
       => Result = TRUE
    /\ (Called("can_contain") /\ input.self = Any) => Result = TRUE

\* can_contain(Any, t) returned true for a union t with a union inside
C12_Witness ==
    /\ Called("can_contain")
    /\ input.self = Any
    /\ IsOr(input.other)
    /\ IsOr(input.other[2]) \/ IsOr(input.other[3])
    /\ Result = TRUE

(***************************************************************************)
(* C13.  With a union as container and a union as value, can_contain holds *)
(* if and only if every flattened scalar member of the value is among the  *)
(* flattened scalar members of the container, whatever the order, the      *)
(* nesting and the duplicates.                                             *)
(***************************************************************************)
C13_UnionInUnionIsSubset ==
    (Called("can_contain") /\ IsOr(input.self) /\ IsOr(input.other))
    => (Result <=> Leaves(input.other) \subseteq Leaves(input.self))

\* Or(Integer, String).can_contain(Or(String, Integer)) returned true
C13_Witness ==
    /\ Called("can_contain")
    /\ input.self = Or(Integer, String)
    /\ input.other = Or(String, Integer)
    /\ Result = TRUE

(***************************************************************************)
(* C14.  Widening is directional: a scalar container contains a value if   *)
(* and only if it is Any or equal to the value, so a scalar other than Any *)
(* never contains a union, while a union contains each of its scalar       *)
(* members.                                                                *)
(***************************************************************************)
C14_WideningIsDirectional ==
    Called("can_contain")
    => /\ ~IsOr(input.self)
            => (Result <=> (input.self = Any \/ input.self = input.other))
       /\ (~IsOr(input.self) /\ input.self # Any /\ IsOr(input.other))
            => Result = FALSE
       /\ (IsOr(input.self) /\ input.other \in Leaves(input.self))
            => Result = TRUE

\* Integer.can_contain(Or(Integer, Bool)) returned false
C14_Witness ==
    /\ Called("can_contain")
    /\ input.self = Integer
    /\ input.other = Or(Integer, Bool)
    /\ Result = FALSE

\* Or(Integer, Bool).can_contain(Integer) returned true
C14_WitnessMember ==
    /\ Called("can_contain")
    /\ input.self = Or(Integer, Bool)
    /\ input.other = Integer
    /\ Result = TRUE

(***************************************************************************)
(* C15.  matches is symmetric: matches(a, b) = matches(b, a) for all types *)
(* a and b, unions nested on either side or on both included.              *)
(***************************************************************************)
C15_MatchesIsSymmetric ==
    Called("matches") => (Result <=> matches(input.other, input.self))

\* matches returned false on a nested union and a scalar it does not hold
C15_Witness ==
    /\ Called("matches")
    /\ IsOr(input.self)
    /\ IsOr(input.self[2]) \/ IsOr(input.self[3])
    /\ ~IsOr(input.other)
    /\ Result = FALSE

(***************************************************************************)
(* C16.  Narrowing is never accepted without force: when the inferred      *)
(* type (or the type stored for the name) is Any or a union, and the       *)
(* annotated type is not Any and its flattened members do not include      *)
(* every flattened member of that type, the annotated assignment is        *)
(* rejected with a report and records no binding.                          *)
(* Stated as written; the code accepts a union annotation over Any         *)
(* (`any` then `int | string`), because can_contain asks matches when the  *)
(* container is a union and the value a scalar.                            *)
(***************************************************************************)
C16_Narrows(suggested, given) ==
    /\ given = Any \/ IsOr(given)
    /\ suggested # Any
    /\ ~(Leaves(given) \subseteq Leaves(suggested))

C16_NarrowingRejected ==
    \A e \in Entries :
        (/\ Resolves(e)
         /\ IsSome(e.inferred)
         /\ ~e.force
         /\ \/ C16_Narrows(SuggestedType(e), InferredType(e))
            \/ /\ IsSome(e.previous)
               /\ C16_Narrows(SuggestedType(e), Unwrap(e.previous).bash_type))
        => /\ MismatchReported(e) \/ ConflictReported(e)
           /\ e.kept

(***************************************************************************)
(* C17.  type_from_string maps the texts string, int, bool and any, with   *)
(* whitespace around them ignored, to the four scalar types, and a list of *)
(* two or more scalar names separated by `|` to the union nested to the    *)
(* right whose leaves are the listed scalars in the written order.         *)
(***************************************************************************)
C17_TypeFromStringNestsRight ==
    Called("type_from_string")
    => /\ Result.ok
       /\ Len(input.names) = 1 => Result.ty = input.names[1]
       /\ Result.ty = RightNested(input.names)
       /\ types_from_or(Result.ty) = input.names

\* ` int | string | bool ` returned Or(Integer, Or(String, Bool))
C17_Witness ==
    /\ Called("type_from_string")
    /\ input.names = <<Integer, String, Bool>>
    /\ input.text[1] = " "
    /\ Result.ok
    /\ Result.ty = Or(Integer, Or(String, Bool))

(***************************************************************************)
(* The value of a handled assignment, read from the syntax tree.           *)
(***************************************************************************)
ValueOf(e) == NodeAt(tree, e.path).kids[3]

\* the name a value expands, when the value is `$name` or a quoted string
\* whose only content is `$name`
ExpandedName(v) ==
    IF v.kind = "simple_expansion" THEN Some(v.kids[2].text)
    ELSE IF /\ v.kind = "string"
            /\ named_child_count(v) = 1
            /\ v.kids[2].kind = "simple_expansion"
    THEN Some(v.kids[2].kids[2].text)
    ELSE None

\* the entries of log the step has added
NewEntries == {log'[i] : i \in (Len(log) + 1)..Len(log')}

(***************************************************************************)
(* C18.  The inferred type of a bare `$name` value, and of a quoted string *)
(* whose only content is a `$name` expansion, is the type the binding map  *)
(* holds for the name (a union, a type declared by annotation or by        *)
(* set_var included), not String.                                          *)
(***************************************************************************)
C18_ExpansionTakesStoredType ==
    \A e \in Entries :
        (IsSome(ExpandedName(ValueOf(e))) /\ e.outcome # "error")
        => /\ Unwrap(ExpandedName(ValueOf(e))) \in DOMAIN variables
           /\ e.inferred
                = Some(variables[Unwrap(ExpandedName(ValueOf(e)))].bash_type)

\* `"$a"` was inferred as the union declared for a
C18_Witness ==
    \E e \in Entries :
        /\ ValueOf(e).kind = "string"
        /\ ExpandedName(ValueOf(e)) = Some(name_a)
        /\ name_a \in DOMAIN variables
        /\ IsOr(variables[name_a].bash_type)
        /\ e.inferred = Some(variables[name_a].bash_type)
        /\ e.outcome = "set"

(***************************************************************************)
(* C19.  A quoted string with no named child or with more than one is      *)
(* inferred as String without a lookup of the variables it mentions: it    *)
(* never raises UnknownVariable, even when an expansion in it names an     *)
(* unbound variable, and the assignment is bound as any other.             *)
(***************************************************************************)
C19_Case(e) ==
    /\ ValueOf(e).kind = "string"
    /\ named_child_count(ValueOf(e)) # 1

C19_MixedStringIsString ==
    \A e \in Entries :
        C19_Case(e)
        => /\ e.outcome # "error"
           /\ e.inferred = Some(String)
           /\ (e.typed = None /\ e.previous = None)
                => /\ e.outcome = "set"
                   /\ e.reported = <<>>
                   /\ e.added = {e.name}
                   /\ variables[e.name].bash_type = String
                   /\ variables[e.name].method = "Inferred"

\* `a="i $b"` bound a as a String while b has no entry
C19_Witness ==
    \E e \in Entries :
        /\ C19_Case(e)
        /\ \E k \in 1..Len(ValueOf(e).kids) :
              /\ ValueOf(e).kids[k].kind = "simple_expansion"
              /\ ValueOf(e).kids[k].kids[2].text \notin DOMAIN variables
        /\ e.outcome = "set"
        /\ e.added = {e.name}
        /\ errors = <<>>

(***************************************************************************)
(* C20.  An assignment whose value is an expansion of a name without an    *)
(* entry in the binding map produces exactly one diagnostic, the           *)
(* UnknownVariable of that name, and leaves the binding map as it was: the *)
(* assigned name is not bound by it.                                       *)
(***************************************************************************)
C20_Unbound(e) ==
    /\ IsSome(ExpandedName(ValueOf(e)))
    /\ Unwrap(ExpandedName(ValueOf(e))) \notin DOMAIN variables'

C20_UnknownVariableReported ==
    [][\A e \in NewEntries :
          C20_Unbound(e)
          => /\ e.outcome = "error"
             /\ e.reported = <<>>
             /\ e.kept
             /\ variables' = variables
             /\ Len(errors') = Len(errors) + 1
             /\ SubSeq(errors', 1, Len(errors)) = errors
             /\ errors'[Len(errors')].kind = "Error while parsing comment"
             /\ errors'[Len(errors')].labels[1].message
                  = UnknownVariable(Unwrap(ExpandedName(ValueOf(e))))]_vars

\* `b=$a` or `b="$a"` with a unbound: one report, no binding
C20_Witness ==
    /\ Len(log) = 1
    /\ log[1].outcome = "error"
    /\ ExpandedName(ValueOf(log[1])) = Some(name_a)
    /\ Len(errors) = 1
    /\ errors[1].labels[1].message = UnknownVariable(name_a)
    /\ variables = <<>>

(***************************************************************************)
(* The directives of the syntax tree, and the comments a step handles.     *)
(***************************************************************************)
\* the arguments of a `#[set_var(...)]` directive comment, split on commas;
\* None for any other node
SetVarArgsOf(n) ==
    IF ~IsDirective(n) THEN None
    ELSE IF ~IsSome(strip_suffix(trim(Unwrap(strip_prefix(n.text, <<"#", "[">>))),
                                 <<"]">>))
    THEN None
    ELSE IF ~IsSome(SetVarInfo(Unwrap(
                strip_suffix(trim(Unwrap(strip_prefix(n.text, <<"#", "[">>))),
                             <<"]">>))))
    THEN None
    ELSE Some(split(Unwrap(SetVarInfo(Unwrap(
                strip_suffix(trim(Unwrap(strip_prefix(n.text, <<"#", "[">>))),
                             <<"]">>)))), ","))

IsSetVar(n) == IsSome(SetVarArgsOf(n))

\* the first set_var directive among the comments that stand in a row from
\* the node at p on: the comments one call of handle_node walks through
RECURSIVE FirstSetVar(_)
FirstSetVar(p) ==
    IF NodeAt(tree, p).kind # "comment" THEN None
    ELSE IF IsSetVar(NodeAt(tree, p)) THEN Some(p)
    ELSE IF HasNextSibling(tree, p) THEN FirstSetVar(NextSibling(p))
    ELSE None

\* the step handles a set_var directive, the first one of its row of
\* comments, and the directive has `count` arguments or, with wellformed
\* FALSE, any other number
HandlesSetVar(wellformed) ==
    /\ status = "running"
    /\ IsSome(FirstSetVar(cursor))
    /\ wellformed
         <=> Len(Unwrap(SetVarArgsOf(NodeAt(tree, Unwrap(FirstSetVar(cursor)))))) = 2

SetVarNode == NodeAt(tree, Unwrap(FirstSetVar(cursor)))

(***************************************************************************)
(* C21.  A `#[set_var(...)]` directive whose argument text does not split  *)
(* on commas into exactly two parts produces exactly one MissingArgument   *)
(* diagnostic, with expected 2 and received the number of parts, and       *)
(* leaves the binding map unchanged.                                       *)
(***************************************************************************)
C21_MissingArgumentReported ==
    [][HandlesSetVar(FALSE)
       => /\ variables' = variables
          /\ Len(errors') = Len(errors) + 1
          /\ SubSeq(errors', 1, Len(errors)) = errors
          /\ errors'[Len(errors')].kind = "Error while parsing comment"
          /\ Len(errors'[Len(errors')].labels) = 1
          /\ errors'[Len(errors')].labels[1].message
               = MissingArgument(2, Len(Unwrap(SetVarArgsOf(SetVarNode))))]_vars

\* `#[set_var(a)]` was handled: one MissingArgument report with received 1
C21_Witness ==
    /\ Len(errors) = 1
    /\ errors[1].labels[1].message = MissingArgument(2, 1)
    /\ variables = <<>>
    /\ \E k \in 1..Len(tree.kids) :
          /\ IsSetVar(tree.kids[k])
          /\ Len(Unwrap(SetVarArgsOf(tree.kids[k]))) = 1

(***************************************************************************)
(* C22.  A well-formed `#[set_var(name, T)]` directive, whatever node      *)
(* follows it, goes through set_variable with a Declared declaration of    *)
(* type T: an unbound name becomes bound to T with method Declared, and    *)
(* the scan continues normally with the node after the directive.          *)
(* Stated as written; the code hands the directive on as the pending       *)
(* comment of an assignment that follows it, and type_from_string panics   *)
(* on its text.                                                            *)
(***************************************************************************)
\* the name and the type a well-formed set_var directive declares
SetVarName == Unwrap(SetVarArgsOf(SetVarNode))[1]
SetVarType == type_from_string(Unwrap(SetVarArgsOf(SetVarNode))[2])

C22_SetVarDeclares ==
    [][(HandlesSetVar(TRUE) /\ SetVarType.ok)
       => /\ status' # "panicked"
          /\ SetVarName \notin DOMAIN variables
             => /\ SetVarName \in DOMAIN variables'
                /\ variables'[SetVarName].bash_type = SetVarType.ty
                /\ variables'[SetVarName].method = "Declared"]_vars

(***************************************************************************)
(* C23.  Every malformed-input diagnostic is anchored at the node that     *)
(* caused it: the label range of a MissingArgument report is the byte      *)
(* range of the offending `#[set_var(...)]` directive comment itself, and  *)
(* the label range of an UnknownVariable report is the byte range of the   *)
(* variable name inside the expansion.                                     *)
(* Stated as written; the code reads the range for MissingArgument after   *)
(* the cursor has moved to the next sibling.                               *)
(***************************************************************************)
\* the first set_var directive with a wrong number of arguments among the
\* comments that stand in a row from the node at p on
RECURSIVE MalformedSetVar(_)
MalformedSetVar(p) ==
    IF NodeAt(tree, p).kind # "comment" THEN None
    ELSE IF /\ IsSetVar(NodeAt(tree, p))
            /\ Len(Unwrap(SetVarArgsOf(NodeAt(tree, p)))) # 2
    THEN Some(p)
    ELSE IF HasNextSibling(tree, p) THEN MalformedSetVar(NextSibling(p))
    ELSE None

\* the variable_name node of the expansion a value consists of
ExpandedVariable(v) ==
    IF v.kind = "simple_expansion" THEN v.kids[2] ELSE v.kids[2].kids[2]

\* the reports the step has pushed
NewReports == {errors'[i] : i \in (Len(errors) + 1)..Len(errors')}

C23_ReportsAnchored ==
    [][\A r \in NewReports :
          r.kind = "Error while parsing comment"
          => /\ r.labels[1].message[1] = "MissingArgument"
                => /\ IsSome(MalformedSetVar(cursor))
                   /\ r.labels[1].range
                        = NodeRange(NodeAt(tree, Unwrap(MalformedSetVar(cursor))))
             /\ r.labels[1].message[1] = "UnknownVariable"
                => \E e \in NewEntries :
                      /\ e.outcome = "error"
                      /\ IsSome(ExpandedName(ValueOf(e)))
                      /\ r.labels[1].range
                           = NodeRange(ExpandedVariable(ValueOf(e)))]_vars

(***************************************************************************)
(* C24.  Handling a node whose kind is neither `comment` nor               *)
(* `variable_assignment` (a command, a keyword, an operator, a container)  *)
(* leaves the binding map and the diagnostics list unchanged.              *)
(***************************************************************************)
C24_OtherNodesAreNoOp ==
    [][(/\ status = "running"
        /\ NodeAt(tree, cursor).kind \notin {"comment", "variable_assignment"})
       => /\ variables' = variables
          /\ errors' = errors
          /\ log' = log]_vars

\* an assignment, then a node of another kind as the last statement: the
\* scan is over and the binding of the assignment is all there is
C24_Witness ==
    /\ status = "done"
    /\ Len(tree.kids) >= 2
    /\ tree.kids[1].kind = "variable_assignment"
    /\ tree.kids[Len(tree.kids)].kind \notin {"comment", "variable_assignment"}
    /\ Len(log) >= 1
    /\ log[1].outcome = "set"
    /\ DOMAIN variables = {log[1].name}
    /\ errors = <<>>

(***************************************************************************)
(* C25.  In every scan that completes, each `variable_assignment` node of  *)
(* the tree, at any nesting depth, is handled by the assignment rule       *)
(* exactly once: never twice and never skipped, including when the node    *)
(* just before it raised an error such as MissingArgument.                 *)
(* Stated as written; the code returns MissingArgument with the cursor     *)
(* already on the next sibling, and the walk goes on from there.           *)
(***************************************************************************)
\* the paths of the nodes of the tree from the node at p down
RECURSIVE Paths(_)
Paths(p) ==
    {p} \cup UNION {Paths(p \o <<i>>) : i \in 1..Len(NodeAt(tree, p).kids)}

AssignmentPaths == {p \in Paths(<<>>) : NodeAt(tree, p).kind = "variable_assignment"}

\* how often the assignment rule has handled the node at p
TimesHandled(p) == Cardinality({i \in 1..Len(log) : log[i].path = p})

C25_EachAssignmentHandledOnce ==
    status = "done" => \A p \in AssignmentPaths : TimesHandled(p) = 1

(***************************************************************************)
(* C26.  After an assignment fails with an error (such as                  *)
(* UnknownVariable) the `#/` comment trailing it is not carried forward as *)
(* the pending annotation of the next statement: the following assignment  *)
(* is checked with no annotation from the failed line.                     *)
(* Stated as written; the code returns the error before it has moved past  *)
(* the trailing comment, and the walk then handles that comment as a       *)
(* leading one.                                                            *)
(***************************************************************************)
\* the assignment of entry e failed with an error and has a trailing `#/`
\* annotation
FailedWithTrailingAnnotation(e) ==
    /\ e.outcome = "error"
    /\ HasTrailingComment(e.path)
    /\ IsAnnotation(NextNode(e.path))

C26_FailedAnnotationNotCarried ==
    \A i \in 1..Len(log), j \in 1..Len(log) :
        (/\ i < j
         /\ FailedWithTrailingAnnotation(log[i])
         /\ IsSome(log[j].pending))
        => Unwrap(log[j].pending).range # NodeRange(NextNode(log[i].path))

(***************************************************************************)
(* C27.  can_contain is a partial order up to equality of flattened member *)
(* sets: it is reflexive (t.can_contain(t) for every type t) and           *)
(* transitive (a.can_contain(b) and b.can_contain(c) give                  *)
(* a.can_contain(c)) over all types built from String, Integer, Bool, Any  *)
(* and Or.                                                                 *)
(* Stated as written; in the code a union contains Any, and Any contains   *)
(* everything.                                                             *)
(***************************************************************************)
C27_CanContainIsPartialOrder ==
    Called("can_contain")
    => /\ input.self = input.other => Result = TRUE
       /\ \A c \in Types :
             (Result = TRUE /\ can_contain(input.other, c))
             => can_contain(input.self, c)

(***************************************************************************)
(* C28.  A `#/` annotation comment affects at most one assignment, and     *)
(* only an adjacent one: the assignment that is its immediately following  *)
(* sibling (leading use) or its immediately preceding sibling (trailing    *)
(* use).  A pending annotation is dropped when the next sibling is a       *)
(* statement that is no assignment or a plain comment; no annotation is    *)
(* applied to an assignment further away or kept for a later statement.    *)
(***************************************************************************)
\* the ranges of the comments the handling of entry e was given or read
CommentsOf(e) ==
    {Unwrap(c).range : c \in {d \in {e.pending, e.inline} : IsSome(d)}}

C28_AnnotationOnlyAdjacent ==
    /\ \A e \in Entries :
          /\ IsSome(e.pending)
             => /\ HasPrevSibling(e.path)
                /\ PrevNode(e.path).kind = "comment"
                /\ Unwrap(e.pending).range = NodeRange(PrevNode(e.path))
          /\ IsSome(e.inline)
             => /\ HasTrailingComment(e.path)
                /\ Unwrap(e.inline).range = NodeRange(NextNode(e.path))
    /\ \A i \in 1..Len(log), j \in 1..Len(log) :
          i # j => CommentsOf(log[i]) \cap CommentsOf(log[j]) = {}

\* a leading `#/` annotation was applied to the assignment after it, and the
\* assignment after that one was handled without annotation
C28_Witness ==
    /\ Len(log) = 2
    /\ IsSome(log[1].pending)
    /\ IsAnnotation(PrevNode(log[1].path))
    /\ log[1].typed = Some(Unwrap(log[1].pending).text)
    /\ log[1].outcome = "set"
    /\ Index(log[2].path) = Index(log[1].path) + 1
    /\ log[2].pending = None
    /\ log[2].typed = None

(***************************************************************************)
(* C29.  Only `#/` comments are resolved as type expressions: the text of  *)
(* a `#[...]` directive comment is never passed to type_from_string and    *)
(* never used as the annotation of an assignment, whether the directive    *)
(* immediately precedes the assignment or immediately follows it.          *)
(* Stated as written; handle_comment returns the text of a `#[` comment as *)
(* it does that of a `#/` comment, and the assignment branch resolves it.  *)
(***************************************************************************)
\* the comment node whose text the handling of entry e gave to
\* type_from_string: the trailing comment when one was read, the pending
\* one otherwise
ResolvedComment(e) ==
    IF IsSome(e.inline) THEN NextNode(e.path) ELSE PrevNode(e.path)

C29_OnlyAnnotationsResolved ==
    \A e \in Entries : IsSome(e.typed) => IsAnnotation(ResolvedComment(e))

(***************************************************************************)
(* C30.  The range recorded in the binding a `#[set_var(name, T)]`         *)
(* directive creates is the byte range of that directive comment, whether  *)
(* or not the comment has a following sibling node.                        *)
(* Stated as written; the code reads the range after the cursor has moved  *)
(* to the next sibling.                                                    *)
(***************************************************************************)
C30_SetVarRangeIsDirective ==
    [][(/\ HandlesSetVar(TRUE)
        /\ SetVarType.ok
        /\ SetVarName \notin DOMAIN variables
        /\ SetVarName \in DOMAIN variables')
       => variables'[SetVarName].range = NodeRange(SetVarNode)]_vars

(***************************************************************************)
(* C31.  Containment of a union value agrees with containment of its       *)
(* members: for every union container c and all types v1, v2,              *)
(* c.can_contain(Or(v1, v2)) holds if and only if c.can_contain(v1) and    *)
(* c.can_contain(v2) both hold, including when Any occurs as a member of c *)
(* or of the value.                                                        *)
(* Stated as written; the code compares a union value member by member     *)
(* for equality, and a scalar value through matches, where Any on either   *)
(* side is compatible.                                                     *)
(***************************************************************************)
C31_UnionValueByMembers ==
    (/\ Called("can_contain")
     /\ IsOr(input.self)
     /\ IsOr(input.other))
    => (Result = TRUE
        <=> /\ can_contain(input.self, input.other[2])
            /\ can_contain(input.self, input.other[3]))

====
